---- MODULE Spec2Model ----
(***************************************************************************)
(* Model of FieldUsageTracker (src/field_usage_tracker.py): the per-object *)
(* usage cache, the six category collectors, the merge of their outputs,   *)
(* the field extractor and the report formatter.                           *)
(*                                                                         *)
(* Python strings are sequences of one-character strings, so that          *)
(* substring search, the regular expression, URL quoting, sorting and      *)
(* strip() are computed and not assumed.                                   *)
(***************************************************************************)
EXTENDS Integers, Sequences, FiniteSets, TLC

VARIABLES
    usage_cache,      \* self.usage_cache: object name -> usage index
    status_callback,  \* self.status_callback: "None" or "set"
    last,             \* outcome of the latest get_field_usage call
    returned,         \* <<object, field>> -> set of strings returned so far
    runs,             \* object name -> collectors run for it so far, in order
    m_usage,          \* usage_data argument of _merge_usage_data (merge runs)
    m_merged,         \* <<field key, category>> -> names merged so far
    ex,               \* input and result of _extract_fields_from_text
    callers           \* concurrent callers of get_field_usage: where each one is

vars == <<usage_cache, status_callback, last, returned, runs, m_usage, m_merged, ex,
          callers>>

(***************************************************************************)
(* Characters and strings                                                  *)
(***************************************************************************)

\* ord(c) for the characters the model uses.
Ord ==
    "\n" :> 10 @@ " " :> 32 @@ "!" :> 33 @@ "#" :> 35 @@ "$" :> 36 @@ "%" :> 37 @@
    "&" :> 38 @@ "'" :> 39 @@ "(" :> 40 @@ ")" :> 41 @@ "*" :> 42 @@ "+" :> 43 @@
    "," :> 44 @@ "-" :> 45 @@ "." :> 46 @@ "/" :> 47 @@ "0" :> 48 @@ "1" :> 49 @@
    "2" :> 50 @@ "3" :> 51 @@ "4" :> 52 @@ "5" :> 53 @@ "6" :> 54 @@ "7" :> 55 @@
    "8" :> 56 @@ "9" :> 57 @@ ":" :> 58 @@ ";" :> 59 @@ "<" :> 60 @@ "=" :> 61 @@
    ">" :> 62 @@ "?" :> 63 @@ "@" :> 64 @@ "A" :> 65 @@ "B" :> 66 @@ "C" :> 67 @@
    "D" :> 68 @@ "E" :> 69 @@ "F" :> 70 @@ "G" :> 71 @@ "H" :> 72 @@ "I" :> 73 @@
    "J" :> 74 @@ "K" :> 75 @@ "L" :> 76 @@ "M" :> 77 @@ "N" :> 78 @@ "O" :> 79 @@
    "P" :> 80 @@ "Q" :> 81 @@ "R" :> 82 @@ "S" :> 83 @@ "T" :> 84 @@ "U" :> 85 @@
    "V" :> 86 @@ "W" :> 87 @@ "X" :> 88 @@ "Y" :> 89 @@ "Z" :> 90 @@ "[" :> 91 @@
    "]" :> 93 @@ "^" :> 94 @@ "_" :> 95 @@ "a" :> 97 @@ "b" :> 98 @@
    "c" :> 99 @@ "d" :> 100 @@ "e" :> 101 @@ "f" :> 102 @@ "g" :> 103 @@ "h" :> 104 @@
    "i" :> 105 @@ "j" :> 106 @@ "k" :> 107 @@ "l" :> 108 @@ "m" :> 109 @@ "n" :> 110 @@
    "o" :> 111 @@ "p" :> 112 @@ "q" :> 113 @@ "r" :> 114 @@ "s" :> 115 @@ "t" :> 116 @@
    "u" :> 117 @@ "v" :> 118 @@ "w" :> 119 @@ "x" :> 120 @@ "y" :> 121 @@ "z" :> 122 @@
    "{" :> 123 @@ "|" :> 124 @@ "}" :> 125 @@ "~" :> 126

IsLetter(c) ==
    \/ (Ord[c] >= Ord["A"] /\ Ord[c] <= Ord["Z"])
    \/ (Ord[c] >= Ord["a"] /\ Ord[c] <= Ord["z"])

IsDigit(c) ==
    Ord[c] >= Ord["0"] /\ Ord[c] <= Ord["9"]

\* \w of the re module on ASCII text: [A-Za-z0-9_]
IsWordChar(c) ==
    IsLetter(c) \/ IsDigit(c) \/ c = "_"

\* str.isspace() on the characters of the model
IsSpace(c) ==
    c \in {" ", "\n"}

\* Python's  needle in text  on strings: substring search.
Contains(text, needle) ==
    \E i \in 1..(Len(text) - Len(needle) + 1) :
        SubSeq(text, i, i + Len(needle) - 1) = needle

RECURSIVE StrLess(_, _)
\* a < b on Python strings: lexicographic by code point
StrLess(a, b) ==
    IF a = <<>> THEN b # <<>>
    ELSE IF b = <<>> THEN FALSE
    ELSE IF Head(a) # Head(b) THEN Ord[Head(a)] < Ord[Head(b)]
    ELSE StrLess(Tail(a), Tail(b))

(***************************************************************************)
(* _extract_fields_from_text: re.findall(r'\b([A-Za-z][A-Za-z0-9_]*__c)\b') *)
(***************************************************************************)

\* \b at the gap before position i (1-based; i = Len+1 is the end of the text)
WordBoundary(text, i) ==
    LET before == i > 1 /\ IsWordChar(text[i - 1])
        after == i <= Len(text) /\ IsWordChar(text[i])
    IN  before # after

RECURSIVE StarMax(_, _)
\* how many characters [A-Za-z0-9_]* can take, greedily, starting at position i
StarMax(text, i) ==
    IF i <= Len(text) /\ IsWordChar(text[i]) THEN 1 + StarMax(text, i + 1) ELSE 0

\* The rest of the pattern after the star took k characters from position i:
\* the literal __c and then \b.
SuffixMatches(text, i, k) ==
    /\ i + k + 2 <= Len(text)
    /\ SubSeq(text, i + k, i + k + 2) = <<"_", "_", "c">>
    /\ WordBoundary(text, i + k + 3)

\* End position of the match that starts at i, or 0 when none: \b, one letter, the
\* star (longest first, then backtracking), __c, \b.
MatchEnd(text, i) ==
    IF ~(WordBoundary(text, i) /\ IsLetter(text[i])) THEN 0
    ELSE LET ks == {k \in 0..StarMax(text, i + 1) : SuffixMatches(text, i + 1, k)}
         IN  IF ks = {} THEN 0
             ELSE (i + 1) + (CHOOSE k \in ks : \A j \in ks : j <= k) + 2

RECURSIVE FindAll(_, _)
\* re.findall: leftmost matches, scanned left to right, not overlapping
FindAll(text, i) ==
    IF i > Len(text) THEN <<>>
    ELSE LET e == MatchEnd(text, i)
         IN  IF e = 0 THEN FindAll(text, i + 1)
             ELSE <<SubSeq(text, i, e)>> \o FindAll(text, e + 1)

\* _extract_fields_from_text(text, object_name): object_name is not used.
ExtractFieldsFromText(text, object_name) ==
    FindAll(text, 1)

(***************************************************************************)
(* Sorting, dictionaries, URL quoting                                      *)
(***************************************************************************)

\* {} : the empty dict
EmptyMap ==
    [k \in {} |-> {}]

\* d.get(key, default)
Get(d, key, default) ==
    IF key \in DOMAIN d THEN d[key] ELSE default

\* d after  d[key] = value
Put(d, key, value) ==
    (key :> value) @@ d

RECURSIVE SortedSet(_)
\* sorted(items) for a set of strings: ascending list of its elements
SortedSet(items) ==
    IF items = {} THEN <<>>
    ELSE LET m == CHOOSE x \in items : \A y \in items : x = y \/ StrLess(x, y)
         IN  <<m>> \o SortedSet(items \ {m})

RECURSIVE Insert(_, _)
\* x placed after the elements of the ascending list s that are not greater
Insert(s, x) ==
    IF s = <<>> THEN <<x>>
    ELSE IF StrLess(x, Head(s)) THEN <<x>> \o s
    ELSE <<Head(s)>> \o Insert(Tail(s), x)

RECURSIVE SortedList(_)
\* sorted(items) for a list of strings (repeated elements are kept)
SortedList(items) ==
    IF items = <<>> THEN <<>>
    ELSE Insert(SortedList(SubSeq(items, 1, Len(items) - 1)), items[Len(items)])

HexDigits ==
    <<"0", "1", "2", "3", "4", "5", "6", "7", "8", "9", "A", "B", "C", "D", "E", "F">>

\* one character under urllib.parse.quote (safe='/')
QuoteChar(c) ==
    IF IsLetter(c) \/ IsDigit(c) \/ c \in {"_", ".", "-", "~", "/"}
    THEN <<c>>
    ELSE <<"%", HexDigits[(Ord[c] \div 16) + 1], HexDigits[(Ord[c] % 16) + 1]>>

RECURSIVE Quote(_)
\* urllib.parse.quote(soql)
Quote(soql) ==
    IF soql = <<>> THEN <<>> ELSE QuoteChar(Head(soql)) \o Quote(Tail(soql))

(***************************************************************************)
(* Categories                                                              *)
(***************************************************************************)

\* the categories in the order the build merges them (lines 69-90)
merge_order ==
    <<"Validation Rules", "Apex Classes", "Apex Triggers", "Visualforce Pages",
      "Visualforce Components", "Page Layouts">>

\* section_order of get_field_usage
section_order ==
    <<"Page Layouts", "Validation Rules", "Apex Classes", "Apex Triggers",
      "Visualforce Pages", "Visualforce Components">>

Categories ==
    {section_order[i] : i \in DOMAIN section_order}

\* the characters of each category name, as written to the report
SectionText ==
    "Page Layouts" :> <<"P","a","g","e"," ","L","a","y","o","u","t","s">> @@
    "Validation Rules" :> <<"V","a","l","i","d","a","t","i","o","n"," ","R","u","l","e","s">> @@
    "Apex Classes" :> <<"A","p","e","x"," ","C","l","a","s","s","e","s">> @@
    "Apex Triggers" :> <<"A","p","e","x"," ","T","r","i","g","g","e","r","s">> @@
    "Visualforce Pages" :> <<"V","i","s","u","a","l","f","o","r","c","e"," ","P","a","g","e","s">> @@
    "Visualforce Components" :> <<"V","i","s","u","a","l","f","o","r","c","e"," ","C","o","m","p","o","n","e","n","t","s">>

(***************************************************************************)
(* _merge_usage_data                                                       *)
(***************************************************************************)

\* The body of the loop of _merge_usage_data for one field key: the entry of
\* usage_data for field_key after items were merged under category.
MergeEntry(usage_data, field_key, items, category) ==
    LET entry == IF field_key \notin DOMAIN usage_data THEN EmptyMap
                 ELSE usage_data[field_key]
        withCategory == IF category \notin DOMAIN entry
                        THEN entry @@ (category :> <<>>)
                        ELSE entry
    IN  [withCategory EXCEPT ![category] = @ \o SortedSet(items)]

RECURSIVE MergeLoop(_, _, _, _)
\* The loop of _merge_usage_data over the field keys left to merge.  The field
\* keys of field_usage are distinct, so the order of the loop is immaterial.
MergeLoop(usage_data, field_usage, keys, category) ==
    IF keys = {} THEN usage_data
    ELSE MergeLoop(Put(usage_data, CHOOSE k \in keys : TRUE,
                       MergeEntry(usage_data, CHOOSE k \in keys : TRUE,
                                  field_usage[CHOOSE k \in keys : TRUE], category)),
                   field_usage, keys \ {CHOOSE k \in keys : TRUE}, category)

\* _merge_usage_data(usage_data, field_usage, category): usage_data afterwards.
merge_usage_data(usage_data, field_usage, category) ==
    MergeLoop(usage_data, field_usage, DOMAIN field_usage, category)

(***************************************************************************)
(* The report of get_field_usage (lines 36-59)                             *)
(***************************************************************************)

RECURSIVE ItemLines(_)
\* "- " + item for every item, in the order given
ItemLines(items) ==
    IF items = <<>> THEN <<>>
    ELSE <<(<<"-", " ">> \o Head(items))>> \o ItemLines(Tail(items))

\* The lines appended for one section: nothing when the category is absent or empty.
SectionLines(usage_data, section) ==
    IF section \in DOMAIN usage_data /\ usage_data[section] # <<>>
    THEN <<SectionText[section]>> \o ItemLines(SortedList(usage_data[section])) \o <<(<<>>)>>
    ELSE <<>>

RECURSIVE FormattedSections(_, _, _)
\* formatted_sections after the loop over order[i..]
FormattedSections(usage_data, order, i) ==
    IF i > Len(order) THEN <<>>
    ELSE SectionLines(usage_data, order[i]) \o FormattedSections(usage_data, order, i + 1)

RECURSIVE Join(_)
\* "\n".join(lines)
Join(lines) ==
    IF lines = <<>> THEN <<>>
    ELSE IF Len(lines) = 1 THEN lines[1]
    ELSE lines[1] \o <<"\n">> \o Join(Tail(lines))

RECURSIVE LStrip(_)
LStrip(s) ==
    IF s # <<>> /\ IsSpace(Head(s)) THEN LStrip(Tail(s)) ELSE s

RECURSIVE RStrip(_)
RStrip(s) ==
    IF s # <<>> /\ IsSpace(s[Len(s)]) THEN RStrip(SubSeq(s, 1, Len(s) - 1)) ELSE s

\* str.strip()
Strip(s) ==
    RStrip(LStrip(s))

\* The string get_field_usage returns for the entry usage_data of a field key.
FormatUsage(usage_data) ==
    IF DOMAIN usage_data = {} THEN <<>>
    ELSE Strip(Join(FormattedSections(usage_data, section_order, 1)))

(***************************************************************************)
(* The remote org: what self.sf answers.  Object names, field names and    *)
(* entity names are strings; a response or a record is a dict and may lack *)
(* any key.  Name and ValidationName are required attributes of the        *)
(* Tooling API records, so every record carries a non-empty name.          *)
(***************************************************************************)

Acc ==
    <<"A","c","c">>

Job ==
    <<"J","o","b">>

Objects ==
    {Acc, Job}

\* The collectors in the order _build_usage_cache_for_object runs them.
Collectors ==
    <<"validation", "apex", "trigger", "vf_page", "vf_comp", "layout">>

CollectorSet ==
    {Collectors[i] : i \in DOMAIN Collectors}

\* The collectors that read the field catalog (describe).
DirectCollectors ==
    {"apex", "trigger", "vf_page", "vf_comp"}

\* The category each collector's output is merged under (lines 70-90).
CategoryOf ==
    "validation" :> "Validation Rules" @@ "apex" :> "Apex Classes" @@
    "trigger" :> "Apex Triggers" @@ "vf_page" :> "Visualforce Pages" @@
    "vf_comp" :> "Visualforce Components" @@ "layout" :> "Page Layouts"

\* A failure pattern of one cache build: the collectors whose query raises in
\* sf.restful, and the collectors whose describe() call raises (the field catalog
\* answers every call, fails the first call, or fails every call of the build).
Envs ==
    [qfail : SUBSET CollectorSet, dfail : {{}, {"apex"}, DirectCollectors}]

NoFailure ==
    [qfail |-> {}, dfail |-> {}]

\* A JSON value that is not an object (a string, a number) where a dict is expected.
Scalar ==
    [scalar |-> TRUE]

IsMapping(v) ==
    "scalar" \notin DOMAIN v

\* The records of the org.  ApexClass, ApexPage and ApexComponent are queried
\* org-wide; ValidationRule, ApexTrigger and Layout are filtered by the object.
ValidationRulesOf(object_name) ==
    IF object_name = Acc
    THEN <<[ValidationName |-> <<"V","2">>,
            Metadata |-> [errorDisplayField |-> <<"S","t","_","_","c">>,
                          errorConditionFormula |-> <<"S","t","_","_","c"," ","="," ","1">>]],
           [ValidationName |-> <<"V","1">>,
            Metadata |-> [errorConditionFormula |-> <<"A","c","c","_","_","c",".","S","t","_","_","c"," ",">"," ","L","i","m","_","_","c">>]],
           [ValidationName |-> <<"V","3">>]>>
    ELSE <<[ValidationName |-> <<"W","1">>,
            Metadata |-> [errorDisplayField |-> <<"R","t","_","_","c">>]],
           [ValidationName |-> <<"W","2">>, Metadata |-> Scalar],
           [ValidationName |-> <<"W","3">>,
            Metadata |-> [errorDisplayField |-> <<"I","d">>]]>>

ApexClasses ==
    <<[Name |-> <<"C","l","s","B">>, Body |-> <<"A","c","c"," ","a",";"," ","a",".","S","t","_","_","c"," ","="," ","1",";">>],
      [Name |-> <<"C","l","s","A">>, Body |-> <<"A","c","c",".","S","t","_","_","c"," ","J","o","b",".","R","t","_","_","c">>],
      [Name |-> <<"U","t","i","l">>, Body |-> <<"x",".","S","t","_","_","c"," ","x",".","R","t","_","_","c">>],
      [Name |-> <<"S","t","u","b">>]>>

TriggersOf(object_name) ==
    IF object_name = Acc
    THEN <<[Name |-> <<"T","r","g","B">>, Body |-> <<"o","n"," ","A","c","c",":"," ","S","t","_","_","c">>],
           [Name |-> <<"T","r","g","A">>, Body |-> <<"n",".","S","t","_","_","c"," ","="," ","o",".","I","d">>]>>
    ELSE <<[Name |-> <<"T","r","g","J">>, Body |-> <<"n",".","R","t","_","_","c"," ","="," ","0">>]>>

ApexPages ==
    <<[Name |-> <<"P","g","A">>, Markup |-> <<"<","A","c","c"," ","S","t","_","_","c","/",">">>],
      [Name |-> <<"P","g","J">>, Markup |-> <<"<","J","o","b"," ","R","t","_","_","c","/",">">>],
      [Name |-> <<"P","g","X">>, Markup |-> <<"<","b",">","S","t","_","_","c","<","/","b",">">>]>>

ApexComponents ==
    <<[Name |-> <<"C","m","p","A">>, Markup |-> <<"<","c"," ","v","=","A","c","c",".","S","t","_","_","c",">">>],
      [Name |-> <<"C","m","p","E">>, Markup |-> <<>>]>>

LayoutsOf(object_name) ==
    IF object_name = Acc
    THEN <<[Name |-> <<"A","c","c"," ","L","a","y","o","u","t">>, Id |-> <<"0","0","h","1">>]>>
    ELSE <<>>

\* What sf.restful returns for the query of a collector when it does not raise.
\* The trigger response for Job lacks the 'records' key.
Response(collector, object_name) ==
    CASE collector = "validation" -> [records |-> ValidationRulesOf(object_name)]
      [] collector = "apex" -> [records |-> ApexClasses, size |-> Len(ApexClasses)]
      [] collector = "trigger" ->
            IF object_name = Acc THEN [records |-> TriggersOf(Acc)]
            ELSE [done |-> TRUE]
      [] collector = "vf_page" -> [records |-> ApexPages]
      [] collector = "vf_comp" -> [records |-> ApexComponents]
      [] collector = "layout" -> [records |-> LayoutsOf(object_name)]

\* getattr(self.sf, object_name).describe() when it does not raise.  The second
\* field of Job lacks its 'name'.
Describe(object_name) ==
    IF object_name = Acc
    THEN [fields |-> <<[name |-> <<"I","d">>], [name |-> <<"S","t","_","_","c">>]>>]
    ELSE [fields |-> <<[name |-> <<"R","t","_","_","c">>], [label |-> <<"R","a","t","e">>]>>]

(***************************************************************************)
(* _log_status                                                             *)
(***************************************************************************)

\* The status sink accepts every message.
CallbackRaises ==
    FALSE

\* _log_status without its  if self.status_callback  guard: calling None raises.
LogStatusUnguardedRaises(callback) ==
    callback = "None" \/ CallbackRaises

\* Whether _log_status(message) raises.
LogStatusRaises(callback) ==
    callback # "None" /\ CallbackRaises

\* The messages _log_status(message) delivers to the sink.
LogStatus(callback, message) ==
    IF callback # "None" /\ ~LogStatusRaises(callback) THEN <<message>> ELSE <<>>

(***************************************************************************)
(* _tooling_query                                                          *)
(***************************************************************************)

\* f"{object_name}.{field}"
FieldKey(object_name, field) ==
    object_name \o <<".">> \o field

\* The try block of a collector, or a whole collector, ends in a record:
\*   usage   the field_usage dict built so far
\*   raised  whether an exception leaves it
\*   logs    the status messages delivered, in order
\*   queries the requests handed to sf.restful, in order

\* _tooling_query(soql) of a collector: the result it returns, or raised.
tooling_query(collector, object_name, env, callback, soql) ==
    [result |-> IF collector \in env.qfail THEN [records |-> <<>>]
                ELSE Response(collector, object_name),
     raised |-> collector \in env.qfail /\ LogStatusRaises(callback),
     logs |-> IF collector \in env.qfail
              THEN LogStatus(callback, "Tooling query error") ELSE <<>>,
     queries |-> <<[via |-> "_tooling_query",
                    url |-> <<"t","o","o","l","i","n","g","/","q","u","e","r","y","/","?","q","=">> \o Quote(soql)]>>]

\*  except Exception as e: self._log_status(...)  followed by  return field_usage
\* of a collector whose try block ended in t.
Except(t, callback, message) ==
    IF t.raised
    THEN [usage |-> t.usage, raised |-> LogStatusRaises(callback),
          logs |-> t.logs \o LogStatus(callback, message), queries |-> t.queries]
    ELSE t

\* field_usage after  if field_key not in field_usage: field_usage[field_key] = set()
\* and  field_usage[field_key].add(name)
AddUsage(field_usage, field_key, name) ==
    LET present == IF field_key \notin DOMAIN field_usage
                   THEN field_usage @@ (field_key :> {})
                   ELSE field_usage
    IN  [present EXCEPT ![field_key] = @ \cup {name}]

(***************************************************************************)
(* _get_page_layout_usage                                                  *)
(***************************************************************************)

\* The try block: one request straight to sf.restful, the object name put into the
\* URL as it is; the loop over the layouts records nothing.
PageLayoutTry(object_name, env) ==
    [usage |-> EmptyMap,
     raised |-> "layout" \in env.qfail,
     logs |-> <<>>,
     queries |-> <<[via |-> "restful",
                    url |-> <<"t","o","o","l","i","n","g","/","q","u","e","r","y","/","?","q","=","S","E","L","E","C","T","+","I","d",",","N","a","m","e",",","E","n","t","i","t","y","D","e","f","i","n","i","t","i","o","n","I","d","+","F","R","O","M","+","L","a","y","o","u","t","+","W","H","E","R","E","+","E","n","t","i","t","y","D","e","f","i","n","i","t","i","o","n","I","d","=","'">>
                            \o object_name \o <<"'">>]>>]

get_page_layout_usage(object_name, env, callback) ==
    Except(PageLayoutTry(object_name, env), callback, "Could not query page layouts")

(***************************************************************************)
(* _get_validation_rule_usage                                              *)
(***************************************************************************)

RECURSIVE AddFields(_, _, _, _)
\* the loop  for field in fields  (lines 167-171)
AddFields(field_usage, object_name, fields, rule_name) ==
    IF fields = <<>> THEN field_usage
    ELSE AddFields(AddUsage(field_usage, FieldKey(object_name, Head(fields)), rule_name),
                   object_name, Tail(fields), rule_name)

RECURSIVE ValidationLoop(_, _, _, _)
\* the loop  for rule in result.get('records', [])  from record i on
ValidationLoop(object_name, records, i, field_usage) ==
    IF i > Len(records) THEN [usage |-> field_usage, raised |-> FALSE]
    ELSE LET rule == records[i]
             rule_name == Get(rule, "ValidationName", <<>>)
             metadata == Get(rule, "Metadata", EmptyMap)
         IN  IF DOMAIN metadata = {}
             THEN ValidationLoop(object_name, records, i + 1, field_usage)
             ELSE IF ~IsMapping(metadata)
             THEN [usage |-> field_usage, raised |-> TRUE]
             ELSE LET error_field == Get(metadata, "errorDisplayField", <<>>)
                      withError == IF error_field # <<>>
                                   THEN AddUsage(field_usage,
                                                 FieldKey(object_name, error_field),
                                                 rule_name)
                                   ELSE field_usage
                      formula == Get(metadata, "errorConditionFormula", <<>>)
                      withFormula ==
                          IF formula # <<>>
                          THEN AddFields(withError, object_name,
                                         ExtractFieldsFromText(formula, object_name),
                                         rule_name)
                          ELSE withError
                  IN  ValidationLoop(object_name, records, i + 1, withFormula)

\* The try block after _tooling_query returned q (or raised).
ValidationAfterQuery(object_name, q) ==
    IF q.raised
    THEN [usage |-> EmptyMap, raised |-> TRUE, logs |-> q.logs, queries |-> q.queries]
    ELSE ValidationLoop(object_name, Get(q.result, "records", <<>>), 1, EmptyMap)
             @@ [logs |-> q.logs, queries |-> q.queries]

ValidationTry(object_name, env, callback) ==
    ValidationAfterQuery(object_name,
        tooling_query("validation", object_name, env, callback,
                      <<"S","E","L","E","C","T"," ","V","a","l","i","d","a","t","i","o","n","N","a","m","e",","," ","M","e","t","a","d","a","t","a"," ","F","R","O","M"," ","V","a","l","i","d","a","t","i","o","n","R","u","l","e"," ","W","H","E","R","E"," ","E","n","t","i","t","y","D","e","f","i","n","i","t","i","o","n",".","Q","u","a","l","i","f","i","e","d","A","p","i","N","a","m","e"," ","="," ","'">>
                      \o object_name \o <<"'">>))

get_validation_rule_usage(object_name, env, callback) ==
    Except(ValidationTry(object_name, env, callback), callback,
           "Could not query validation rules")

(***************************************************************************)
(* The four direct-match collectors                                        *)
(***************************************************************************)

RECURSIVE MatchFieldsEager(_, _, _, _, _)
\* The loop with  field_usage[field_key] = set()  done before the test of the text:
\* every catalog field gets a key, a name only on a hit.
MatchFieldsEager(field_usage, object_name, field_names, text, entity_name) ==
    IF field_names = <<>> THEN field_usage
    ELSE LET field_name == Head(field_names)
             field_key == FieldKey(object_name, field_name)
             present == IF field_key \notin DOMAIN field_usage
                        THEN field_usage @@ (field_key :> {})
                        ELSE field_usage
             next == IF Contains(text, field_name)
                     THEN AddUsage(present, field_key, entity_name)
                     ELSE present
         IN  MatchFieldsEager(next, object_name, Tail(field_names), text, entity_name)

RECURSIVE MatchFields(_, _, _, _, _)
\* the loop  for field_name in field_names  over one entity's text
MatchFields(field_usage, object_name, field_names, text, entity_name) ==
    IF field_names = <<>> THEN field_usage
    ELSE LET field_name == Head(field_names)
             next == IF Contains(text, field_name)
                     THEN AddUsage(field_usage, FieldKey(object_name, field_name),
                                   entity_name)
                     ELSE field_usage
         IN  MatchFields(next, object_name, Tail(field_names), text, entity_name)

RECURSIVE DirectLoop(_, _, _, _, _, _, _)
\* The loop over the records of a direct-match collector from record i on.
\* text_key is 'Body' or 'Markup'; check_object says whether the loop has the test
\*  if object_name not in body: continue.
DirectLoop(object_name, records, text_key, check_object, field_names, i, field_usage) ==
    IF i > Len(records) THEN field_usage
    ELSE LET entity == records[i]
             entity_name == Get(entity, "Name", <<>>)
             text == Get(entity, text_key, <<>>)
             next == IF text = <<>> THEN field_usage
                     ELSE IF check_object /\ ~Contains(text, object_name) THEN field_usage
                     ELSE MatchFields(field_usage, object_name, field_names, text,
                                      entity_name)
         IN  DirectLoop(object_name, records, text_key, check_object, field_names,
                        i + 1, next)

\* [field.get('name', '') for field in obj_describe['fields']]
FieldNames(obj_describe) ==
    [i \in DOMAIN obj_describe.fields |-> Get(obj_describe.fields[i], "name", <<>>)]

\* The try block after _tooling_query returned q (or raised): the describe()
\* call and the loop.
DirectAfterQuery(collector, object_name, env, text_key, check_object, q) ==
    IF q.raised \/ collector \in env.dfail
    THEN [usage |-> EmptyMap, raised |-> TRUE, logs |-> q.logs, queries |-> q.queries]
    ELSE [usage |-> DirectLoop(object_name, Get(q.result, "records", <<>>),
                               text_key, check_object,
                               FieldNames(Describe(object_name)), 1, EmptyMap),
          raised |-> FALSE, logs |-> q.logs, queries |-> q.queries]

\* The try block shared by the four collectors.
DirectTry(collector, object_name, env, callback, soql, text_key, check_object) ==
    DirectAfterQuery(collector, object_name, env, text_key, check_object,
                     tooling_query(collector, object_name, env, callback, soql))

\* _get_apex_usage with its try block left unguarded: an exception leaves the collector.
ApexUsageUnguarded(object_name, env, callback) ==
    DirectTry("apex", object_name, env, callback,
              <<"S","E","L","E","C","T"," ","N","a","m","e",","," ","B","o","d","y"," ","F","R","O","M"," ","A","p","e","x","C","l","a","s","s"," ","L","I","M","I","T"," ","5","0","0">>, "Body", TRUE)

get_apex_usage(object_name, env, callback) ==
    Except(DirectTry("apex", object_name, env, callback,
                     <<"S","E","L","E","C","T"," ","N","a","m","e",","," ","B","o","d","y"," ","F","R","O","M"," ","A","p","e","x","C","l","a","s","s"," ","L","I","M","I","T"," ","5","0","0">>, "Body", TRUE),
           callback, "Could not query Apex classes")

\* The trigger loop has no test of the object name: the query is filtered instead.
get_trigger_usage(object_name, env, callback) ==
    Except(DirectTry("trigger", object_name, env, callback,
                     <<"S","E","L","E","C","T"," ","N","a","m","e",","," ","B","o","d","y"," ","F","R","O","M"," ","A","p","e","x","T","r","i","g","g","e","r"," ","W","H","E","R","E"," ","T","a","b","l","e","E","n","u","m","O","r","I","d"," ","="," ","'">>
                     \o object_name \o <<"'">>, "Body", FALSE),
           callback, "Could not query triggers")

\* _get_visualforce_page_usage without the test  if object_name not in markup
VisualforcePageUsageAnyObject(object_name, env, callback) ==
    Except(DirectTry("vf_page", object_name, env, callback,
                     <<"S","E","L","E","C","T"," ","N","a","m","e",","," ","M","a","r","k","u","p"," ","F","R","O","M"," ","A","p","e","x","P","a","g","e"," ","L","I","M","I","T"," ","5","0","0">>, "Markup", FALSE),
           callback, "Could not query Visualforce pages")

get_visualforce_page_usage(object_name, env, callback) ==
    Except(DirectTry("vf_page", object_name, env, callback,
                     <<"S","E","L","E","C","T"," ","N","a","m","e",","," ","M","a","r","k","u","p"," ","F","R","O","M"," ","A","p","e","x","P","a","g","e"," ","L","I","M","I","T"," ","5","0","0">>, "Markup", TRUE),
           callback, "Could not query Visualforce pages")

get_visualforce_component_usage(object_name, env, callback) ==
    Except(DirectTry("vf_comp", object_name, env, callback,
                     <<"S","E","L","E","C","T"," ","N","a","m","e",","," ","M","a","r","k","u","p"," ","F","R","O","M"," ","A","p","e","x","C","o","m","p","o","n","e","n","t"," ","L","I","M","I","T"," ","5","0","0">>, "Markup", TRUE),
           callback, "Could not query Visualforce components")

\* The collector called for each step of the build.
CollectorUsage(collector, object_name, env, callback) ==
    CASE collector = "validation" -> get_validation_rule_usage(object_name, env, callback)
      [] collector = "apex" -> get_apex_usage(object_name, env, callback)
      [] collector = "trigger" -> get_trigger_usage(object_name, env, callback)
      [] collector = "vf_page" -> get_visualforce_page_usage(object_name, env, callback)
      [] collector = "vf_comp" -> get_visualforce_component_usage(object_name, env, callback)
      [] collector = "layout" -> get_page_layout_usage(object_name, env, callback)

(***************************************************************************)
(* _build_usage_cache_for_object                                           *)
(***************************************************************************)

RECURSIVE RunCollectors(_, _, _, _, _)
RECURSIVE AfterCollector(_, _, _, _, _, _)
\* The try block of the build after collector i returned r: the collector is
\* noted as called, its output merged, and the next collector run; an
\* exception leaving the collector ends the try block.
AfterCollector(object_name, env, callback, i, acc, r) ==
    IF r.raised
    THEN [acc EXCEPT !.ran = Append(@, Collectors[i]), !.logs = @ \o r.logs,
                     !.queries = @ \o r.queries, !.raised = TRUE]
    ELSE RunCollectors(object_name, env, callback, i + 1,
             [acc EXCEPT !.ran = Append(@, Collectors[i]), !.logs = @ \o r.logs,
                         !.queries = @ \o r.queries,
                         !.usage_data = merge_usage_data(@, r.usage,
                                                         CategoryOf[Collectors[i]])])

\* The try block of the build from collector i on (lines 68-90); acc holds
\* usage_data, the collectors called, the messages and the requests so far.
RunCollectors(object_name, env, callback, i, acc) ==
    IF i > Len(Collectors) THEN acc
    ELSE AfterCollector(object_name, env, callback, i, acc,
                        CollectorUsage(Collectors[i], object_name, env, callback))

\* The build before its first collector: line 65, and the message of line 63.
BuildStart(callback) ==
    [usage_data |-> EmptyMap, raised |-> FALSE, ran |-> <<>>,
     logs |-> LogStatus(callback, "Building field usage cache"), queries |-> <<>>]

\* The end of the build whose try block ended in t (lines 92-97):
\*   stored  whether self.usage_cache[object_name] was assigned, and index its value
\*   raised  whether an exception leaves the method
BuildEnd(t, callback) ==
    IF ~t.raised
    THEN \* lines 92-93; a raise of line 93 is met by line 96, which raises too
         [stored |-> TRUE, index |-> t.usage_data,
          raised |-> LogStatusRaises(callback), ran |-> t.ran,
          logs |-> t.logs \o LogStatus(callback, "Usage cache built"),
          queries |-> t.queries]
    ELSE \* lines 95-97
         [stored |-> ~LogStatusRaises(callback), index |-> t.usage_data,
          raised |-> LogStatusRaises(callback), ran |-> t.ran,
          logs |-> t.logs \o LogStatus(callback,
                               "Warning: Could not build complete usage cache"),
          queries |-> t.queries]

\* The build that keeps its index only when no call failed.
BuildDroppingOnFailure(object_name, env, callback) ==
    [BuildEnd(RunCollectors(object_name, env, callback, 1, BuildStart(callback)), callback)
        EXCEPT !.stored = env.qfail = {} /\ env.dfail = {}]

\* _build_usage_cache_for_object(object_name)
build_usage_cache_for_object(object_name, env, callback) ==
    IF LogStatusRaises(callback)       \* line 63, outside the try
    THEN [stored |-> FALSE, index |-> EmptyMap, raised |-> TRUE, ran |-> <<>>,
          logs |-> <<>>, queries |-> <<>>]
    ELSE BuildEnd(RunCollectors(object_name, env, callback, 1, BuildStart(callback)),
                  callback)

Callbacks ==
    {"None", "set"}

\* The outcome of the build for every object, callback and failure pattern,
\* tabulated (the build reads nothing else).  Joining with the empty function
\* makes the table an explicit one, computed once.
BuildTable ==
    [k \in Objects \X Callbacks \X Envs |->
        build_usage_cache_for_object(k[1], k[3], k[2])] @@ EmptyMap

(***************************************************************************)
(* get_field_usage                                                         *)
(***************************************************************************)

\* The field names callers ask about: each is a field of one object and unknown to the other.
FieldsAsked ==
    {<<"S","t","_","_","c">>, <<"R","t","_","_","c">>}

NoBuild ==
    [stored |-> FALSE, index |-> EmptyMap, raised |-> FALSE, ran |-> <<>>,
     logs |-> <<>>, queries |-> <<>>]

\* the most builds of one object that a run of the model follows
MaxBuilds ==
    2

\* line 30: whether get_field_usage builds the index of object_name
NeedsBuild(cache, object_name) ==
    object_name \notin DOMAIN cache

\* the assignment of lines 92/97 replaced by one that forgets the other objects
CacheAfterReset(cache, object_name, b) ==
    IF b.stored THEN (object_name :> b.index) ELSE cache

\* self.usage_cache after the build b of object_name
CacheAfter(cache, object_name, b) ==
    IF b.stored THEN Put(cache, object_name, b.index) ELSE cache

\* lines 33-59 on the cache: the string returned
Report(cache, object_name, field_api_name) ==
    FormatUsage(Get(Get(cache, object_name, EmptyMap),
                    FieldKey(object_name, field_api_name), EmptyMap))

\* The collectors whose query or describe() call raises under env.
Failing(env) ==
    env.qfail \cup env.dfail

\* get_field_usage(object_name, field_api_name) when the build, if any, is b
\* under the failure pattern env.
Call(object_name, field_api_name, miss, env, b) ==
    LET cache == CacheAfter(usage_cache, object_name, b)
        result == IF b.raised THEN <<>> ELSE Report(cache, object_name, field_api_name)
    IN  /\ usage_cache' = cache
        /\ runs' = [runs EXCEPT ![object_name] = @ \o b.ran]
        /\ last' = [object |-> object_name, field |-> field_api_name,
                    asked_before |-> returned[<<object_name, field_api_name>>] # {},
                    built |-> miss, failed |-> Failing(env),
                    outcome |-> IF b.raised THEN "exception" ELSE "string",
                    result |-> result, ran |-> b.ran, notified |-> b.logs # <<>>,
                    queries |-> b.queries]
        /\ returned' = IF b.raised THEN returned
                       ELSE [returned EXCEPT ![<<object_name, field_api_name>>] =
                                @ \cup {result}]
        /\ UNCHANGED <<status_callback, m_usage, m_merged, ex, callers>>

GetFieldUsage(object_name, field_api_name) ==
    IF NeedsBuild(usage_cache, object_name)
    THEN /\ Len(runs[object_name]) < MaxBuilds * Len(Collectors)
         /\ \E env \in Envs :
                Call(object_name, field_api_name, TRUE, env,
                     BuildTable[<<object_name, status_callback, env>>])
    ELSE Call(object_name, field_api_name, FALSE, NoFailure, NoBuild)

NoCall ==
    [object |-> <<>>, field |-> <<>>, asked_before |-> FALSE, built |-> FALSE,
     failed |-> {},
     outcome |-> "none", result |-> <<>>, ran |-> <<>>, notified |-> FALSE,
     queries |-> <<>>]

\* the variables of the merge runs and of the extractor runs, unused
IdleMerge ==
    /\ m_usage = EmptyMap
    /\ m_merged = EmptyMap

IdleExtract ==
    ex = [text |-> <<>>, object_name |-> <<>>, fields |-> <<>>, done |-> FALSE]

\* no concurrent callers
IdleCallers ==
    callers = <<>>

\* FieldUsageTracker(sf, status_callback): an empty cache (lines 12-17)
Init ==
    /\ usage_cache = EmptyMap
    /\ status_callback \in Callbacks
    /\ last = NoCall
    /\ returned = [p \in Objects \X FieldsAsked |-> {}]
    /\ runs = [o \in Objects |-> <<>>]
    /\ IdleMerge
    /\ IdleExtract
    /\ IdleCallers

Next ==
    \E object_name \in Objects, field_api_name \in FieldsAsked :
        GetFieldUsage(object_name, field_api_name)

Spec ==
    Init /\ [][Next]_vars

(***************************************************************************)
(* Runs of _merge_usage_data alone: any sequence of merges into one index  *)
(***************************************************************************)

\* the longest list of names a merge run lets one category grow to
MaxListLen ==
    2

MergeNames ==
    {<<"C","l","a","s","s","A">>, <<"C","l","a","s","s","B">>}

MergeKeys ==
    {FieldKey(Acc, <<"S","t","_","_","c">>), FieldKey(Acc, <<"I","d">>)}

MergeCategories ==
    {"Apex Classes", "Page Layouts"}

\* The field_usage arguments: a non-empty set of names for each of some field keys.
FieldUsages ==
    UNION {[keys -> (SUBSET MergeNames) \ {{}}] : keys \in (SUBSET MergeKeys) \ {{}}}

\* The names merged so far for a field key and a category.
MergedSoFar(merged, field_key, category) ==
    Get(merged, <<field_key, category>>, {})

\* One call _merge_usage_data(m_usage, field_usage, category).
Merge(field_usage, category) ==
    /\ \A field_key \in DOMAIN field_usage :
           Len(Get(Get(m_usage, field_key, EmptyMap), category, <<>>))
               + Cardinality(field_usage[field_key]) <= MaxListLen
    /\ m_usage' = merge_usage_data(m_usage, field_usage, category)
    /\ m_merged' = [p \in (DOMAIN m_merged) \cup ((DOMAIN field_usage) \X {category}) |->
                       IF p[2] = category /\ p[1] \in DOMAIN field_usage
                       THEN MergedSoFar(m_merged, p[1], p[2]) \cup field_usage[p[1]]
                       ELSE m_merged[p]]
    /\ UNCHANGED <<usage_cache, status_callback, last, returned, runs, ex, callers>>

\* the variables of the tracker, unused
IdleTracker ==
    /\ usage_cache = EmptyMap
    /\ status_callback = "None"
    /\ last = NoCall
    /\ returned = [p \in Objects \X FieldsAsked |-> {}]
    /\ runs = [o \in Objects |-> <<>>]

InitMerge ==
    /\ IdleTracker
    /\ IdleMerge
    /\ IdleExtract
    /\ IdleCallers

NextMerge ==
    \E field_usage \in FieldUsages, category \in MergeCategories :
        Merge(field_usage, category)

SpecMerge ==
    InitMerge /\ [][NextMerge]_vars

(***************************************************************************)
(* Runs of _extract_fields_from_text alone                                 *)
(***************************************************************************)

Account ==
    <<"A","c","c","o","u","n","t">>

\* the text of a validation formula that names the object and one of its fields
QualifiedFieldText ==
    <<"i","f"," ","(","A","c","c","o","u","n","t","_","_","c",".","S","t","a","t","u","s","_","_","c"," ","=","="," ","'","X","'",")">>

\* the pieces the other texts are made of
Pieces ==
    {<<"A","c","c","o","u","n","t","_","_","c">>, <<"S","t","a","t","u","s","_","_","c">>, <<".">>, <<" ">>, <<"x">>, <<"_","_","c">>, <<"a","_","_","c">>, <<"9","_","_","c">>,
     <<"_","c">>}

\* the most pieces in one text
MaxPieces ==
    3

RECURSIVE TextsOf(_)
\* the texts of at most n pieces
TextsOf(n) ==
    IF n = 0 THEN {<<>>}
    ELSE LET shorter == TextsOf(n - 1)
         IN  shorter \cup {t \o p : t \in shorter, p \in Pieces}

Texts ==
    TextsOf(MaxPieces) \cup {QualifiedFieldText}

InitExtract ==
    /\ IdleTracker
    /\ IdleMerge
    /\ IdleCallers
    /\ \E text \in Texts :
           ex = [text |-> text, object_name |-> Account, fields |-> <<>>, done |-> FALSE]

\* One call _extract_fields_from_text(ex.text, ex.object_name).
Extract ==
    /\ ~ex.done
    /\ ex' = [ex EXCEPT !.fields = ExtractFieldsFromText(ex.text, ex.object_name),
                        !.done = TRUE]
    /\ UNCHANGED <<usage_cache, status_callback, last, returned, runs, m_usage, m_merged,
                   callers>>

NextExtract ==
    Extract

SpecExtract ==
    InitExtract /\ [][NextExtract]_vars

(***************************************************************************)
(* Runs of get_field_usage on a cache that already holds an index of one   *)
(* field: the report of any usage entry, the Page Layouts category (which  *)
(* no collector fills today) included.                                     *)
(***************************************************************************)

\* The entity names an entry may hold under each category.
EntityNames ==
    "Page Layouts" :> {<<"L","a","y","o","u","t","1">>} @@
    "Validation Rules" :> {<<"R","u","l","e","1">>} @@
    "Apex Classes" :> {<<"C","l","a","s","s","A">>, <<"C","l","a","s","s","B">>, <<"a","C","l","a","s","s">>} @@
    "Apex Triggers" :> {<<"T","r","i","g","1">>} @@
    "Visualforce Pages" :> {<<"P","a","g","e","1">>} @@
    "Visualforce Components" :> {<<"C","o","m","p","1">>}

\* The lists without repetition over the names of names, in every order.
ListsOver(names) ==
    UNION {{s \in [1..Cardinality(sub) -> sub] : \A i, j \in DOMAIN s : i # j => s[i] # s[j]}
           : sub \in SUBSET names}

RECURSIVE EntriesOver(_)
\* The usage entries over the categories cats: each category absent, or present
\* with a list of its names (maybe the empty list).
EntriesOver(cats) ==
    IF cats = {} THEN {EmptyMap}
    ELSE LET c == CHOOSE x \in cats : TRUE
             rest == EntriesOver(cats \ {c})
         IN  rest \cup {e @@ (c :> l) : e \in rest, l \in ListsOver(EntityNames[c])}

UsageEntries ==
    EntriesOver(Categories)

InitFormat ==
    /\ \E entry \in UsageEntries :
           usage_cache = (Acc :> (FieldKey(Acc, <<"S","t","_","_","c">>) :> entry))
    /\ status_callback = "None"
    /\ last = NoCall
    /\ returned = [p \in Objects \X FieldsAsked |-> {}]
    /\ runs = [o \in Objects |-> <<>>]
    /\ IdleMerge
    /\ IdleExtract
    /\ IdleCallers

NextFormat ==
    \E field_api_name \in FieldsAsked :
        GetFieldUsage(Acc, field_api_name)

SpecFormat ==
    InitFormat /\ [][NextFormat]_vars

(***************************************************************************)
(* Concurrent callers of get_field_usage on one tracker.  The class holds  *)
(* no lock; a caller is interrupted only between its accesses to           *)
(* self.usage_cache: the test of line 30, the assignment of line 92 or 97  *)
(* and the lookup of line 34.  The collectors of a build work on the local *)
(* usage_data and read nothing of the tracker, so a build is one step.     *)
(***************************************************************************)

Threads ==
    {1, 2}

\* The failure patterns followed for concurrent builds: no failure, or the
\* query of one collector fails.
ConcurrentEnvs ==
    {env \in Envs : env.dfail = {} /\ Cardinality(env.qfail) <= 1}

\* A caller about to run get_field_usage(object_name, field_api_name).
Calling(object_name, field_api_name) ==
    [pc |-> "test", object |-> object_name, field |-> field_api_name,
     b |-> NoBuild, wrote |-> FALSE, result |-> <<>>]

InitConcurrent ==
    /\ usage_cache = EmptyMap
    /\ status_callback \in Callbacks
    /\ last = NoCall
    /\ returned = [p \in Objects \X FieldsAsked |-> {}]
    /\ runs = [o \in Objects |-> <<>>]
    /\ IdleMerge
    /\ IdleExtract
    /\ callers \in [Threads -> {Calling(o, f) : o \in Objects, f \in FieldsAsked}]

\* line 30:  if object_name not in self.usage_cache
TestCache(t) ==
    /\ callers[t].pc = "test"
    /\ callers' = [callers EXCEPT ![t].pc =
                      IF NeedsBuild(usage_cache, callers[t].object) THEN "build"
                      ELSE "lookup"]
    /\ UNCHANGED <<usage_cache, status_callback, last, returned, runs, m_usage, m_merged, ex>>

\* lines 63-90 of the build called at line 31: the collectors run and fill the
\* caller's own usage_data.
RunBuild(t) ==
    /\ callers[t].pc = "build"
    /\ \E env \in ConcurrentEnvs :
           callers' = [callers EXCEPT
                          ![t].b = BuildTable[<<callers[t].object, status_callback, env>>],
                          ![t].pc = "store"]
    /\ runs' = [runs EXCEPT ![callers[t].object] = @ \o callers'[t].b.ran]
    /\ UNCHANGED <<usage_cache, status_callback, last, returned, m_usage, m_merged, ex>>

\* line 92 (or 97):  self.usage_cache[object_name] = usage_data
StoreIndex(t) ==
    /\ callers[t].pc = "store"
    /\ usage_cache' = CacheAfter(usage_cache, callers[t].object, callers[t].b)
    /\ callers' = [callers EXCEPT ![t].wrote = callers[t].b.stored,
                                  ![t].pc = IF callers[t].b.raised THEN "raised"
                                            ELSE "lookup"]
    /\ UNCHANGED <<status_callback, last, returned, runs, m_usage, m_merged, ex>>

\* lines 33-59: the lookup in self.usage_cache and the report returned
Lookup(t) ==
    /\ callers[t].pc = "lookup"
    /\ callers' = [callers EXCEPT
                      ![t].result = Report(usage_cache, callers[t].object, callers[t].field),
                      ![t].pc = "done"]
    /\ UNCHANGED <<usage_cache, status_callback, last, returned, runs, m_usage, m_merged, ex>>

NextConcurrent ==
    \E t \in Threads :
        \/ TestCache(t)
        \/ RunBuild(t)
        \/ StoreIndex(t)
        \/ Lookup(t)

SpecConcurrent ==
    InitConcurrent /\ [][NextConcurrent]_vars

(***************************************************************************)
(* Properties                                                              *)
(***************************************************************************)

\* The names held at index[field_key][category], as a set (none when absent).
Stored(index, field_key, category) ==
    LET names == Get(Get(index, field_key, EmptyMap), category, <<>>)
    IN  {names[i] : i \in DOMAIN names}

\* What every collector finds for every object when no call fails, tabulated.
Contribution ==
    [k \in CollectorSet \X Objects |->
        CollectorUsage(k[1], k[2], NoFailure, "None").usage] @@ EmptyMap

\* The line "- name" of a report.
ItemLine(name) ==
    <<"-", " ">> \o name

(* ---------------------------------------------------------------- C1 --- *)

\* C1: calling get_field_usage twice for the same object and field returns the
\* same string, whatever failed during the build, and the six collectors are
\* run for an object exactly once in total: a call for an object that was
\* asked about before runs no collector and issues no query.
C1_Idempotent ==
    /\ \A p \in DOMAIN returned : Cardinality(returned[p]) <= 1
    /\ \A o \in Objects : runs[o] = <<>> \/ runs[o] = Collectors
    /\ \A p \in DOMAIN returned : returned[p] # {} => runs[p[1]] = Collectors
    /\ (last.outcome = "string" /\ last.asked_before) =>
           /\ returned[<<last.object, last.field>>] = {last.result}
           /\ last.ran = <<>>
           /\ last.queries = <<>>

\* C1 witness: a second call for Acc.St__c, answered with a non-empty report
\* from an index whose build lost the validation rules to a failure.
C1_Witness ==
    /\ last.object = Acc
    /\ last.field = <<"S","t","_","_","c">>
    /\ last.asked_before
    /\ ~last.built
    /\ last.result # <<>>
    /\ Acc \in DOMAIN usage_cache
    /\ Stored(usage_cache[Acc], FieldKey(Acc, <<"S","t","_","_","c">>), "Validation Rules") = {}
    /\ Stored(usage_cache[Acc], FieldKey(Acc, <<"S","t","_","_","c">>), "Apex Classes") # {}

(* ---------------------------------------------------------------- C2 --- *)

\* C2: when calls of some collectors fail during a build, every collector is
\* still run, and the index stored and the report returned hold exactly what
\* the collectors that did not fail produce: nothing of a failed collector,
\* everything of the others.
C2_Isolation ==
    (last.built /\ last.outcome = "string") =>
        LET o == last.object
            index == Get(usage_cache, o, EmptyMap)
            found(c) == IF c \in last.failed THEN EmptyMap ELSE Contribution[<<c, o>>]
            keys == DOMAIN index \cup UNION {DOMAIN Contribution[<<c, o>>] : c \in CollectorSet}
        IN  /\ last.ran = Collectors
            /\ o \in DOMAIN usage_cache
            /\ DOMAIN index = UNION {DOMAIN found(c) : c \in CollectorSet}
            /\ \A c \in CollectorSet, field_key \in keys :
                   Stored(index, field_key, CategoryOf[c]) = Get(found(c), field_key, {})
            /\ \A c \in CollectorSet :
                   \A field_key \in DOMAIN Contribution[<<c, o>>] :
                       \A name \in Contribution[<<c, o>>][field_key] :
                           Contains(last.result, ItemLine(name))
                               <=> /\ c \notin last.failed
                                   /\ name \in Get(Contribution[<<c, o>>],
                                                   FieldKey(o, last.field), {})

\* C2 witness: a build of Acc in which only the validation rule query failed,
\* reporting the classes, triggers, pages and components of Acc.St__c.
C2_Witness ==
    /\ last.built
    /\ last.failed = {"validation"}
    /\ last.object = Acc
    /\ last.field = <<"S","t","_","_","c">>
    /\ Contains(last.result, ItemLine(<<"C","l","s","A">>))
    /\ Contains(last.result, ItemLine(<<"C","m","p","A">>))
    /\ ~Contains(last.result, ItemLine(<<"V","1">>))

(* ---------------------------------------------------------------- C3 --- *)

\* C3: get_field_usage never ends in an exception: whatever queries and
\* describe() calls fail, whatever records are malformed, and with or without
\* a status callback, every call returns a string.
C3_NoErrorOutcome ==
    /\ last.outcome \in {"none", "string"}
    /\ last.outcome = "string" => last.ran \in {<<>>, Collectors}

\* C3 witness: a tracker without status callback builds Job, whose validation
\* rules hold a malformed record, while every other query and describe() call
\* fails, and returns a string.
C3_Witness ==
    /\ status_callback = "None"
    /\ last.built
    /\ last.object = Job
    /\ last.failed = CollectorSet \ {"validation"}
    /\ last.outcome = "string"

(* ---------------------------------------------------------------- C4 --- *)

\* C4: after any sequence of merges into one index, the names stored for a
\* field key and a category are the union of the sets merged for them, each
\* name stored once.
C4_MergeIsUnion ==
    \A field_key \in MergeKeys, category \in MergeCategories :
        LET names == Get(Get(m_usage, field_key, EmptyMap), category, <<>>)
        IN  /\ {names[i] : i \in DOMAIN names} = MergedSoFar(m_merged, field_key, category)
            /\ Len(names) = Cardinality(MergedSoFar(m_merged, field_key, category))

(* ---------------------------------------------------------------- C5 --- *)

\* C5: in every state of the cache, every category present under a field key
\* of a cached object holds at least one entity name.
C5_NoEmptyCategory ==
    \A o \in DOMAIN usage_cache :
        \A field_key \in DOMAIN usage_cache[o] :
            \A category \in DOMAIN usage_cache[o][field_key] :
                usage_cache[o][field_key][category] # <<>>

\* C5 witness: both objects are cached; the index of Acc holds a field with
\* some categories and without others, the index of Job was built under failures.
C5_Witness ==
    /\ DOMAIN usage_cache = Objects
    /\ FieldKey(Acc, <<"S","t","_","_","c">>) \in DOMAIN usage_cache[Acc]
    /\ "Apex Triggers" \in DOMAIN usage_cache[Acc][FieldKey(Acc, <<"S","t","_","_","c">>)]
    /\ "Visualforce Pages" \notin DOMAIN usage_cache[Acc][FieldKey(Acc, <<"S","t","_","_","c">>)]
    /\ FieldKey(Acc, <<"I","d">>) \in DOMAIN usage_cache[Acc]
    /\ last.object = Job
    /\ last.failed # {}

(* ---------------------------------------------------------------- C6 --- *)

\* the order of the categories in a report
ReportOrder ==
    <<"Page Layouts", "Validation Rules", "Apex Classes", "Apex Triggers",
      "Visualforce Pages", "Visualforce Components">>

\* The names of a list in ascending order.
Ascending(names) ==
    LET set == {names[i] : i \in DOMAIN names}
    IN  CHOOSE s \in [1..Cardinality(set) -> set] :
            \A i, j \in DOMAIN s : i < j => StrLess(s[i], s[j])

RECURSIVE Bullets(_)
\* a line break and "- name" for every name
Bullets(names) ==
    IF names = <<>> THEN <<>>
    ELSE <<"\n">> \o ItemLine(Head(names)) \o Bullets(Tail(names))

RECURSIVE Sections(_, _)
\* the sections of entry for the categories cats, in order, a blank line between
Sections(entry, cats) ==
    IF cats = <<>> THEN <<>>
    ELSE LET rest == Sections(entry, Tail(cats))
             c == Head(cats)
         IN  IF c \in DOMAIN entry /\ entry[c] # <<>>
             THEN SectionText[c] \o Bullets(Ascending(entry[c]))
                  \o (IF rest = <<>> THEN <<>> ELSE <<"\n", "\n">> \o rest)
             ELSE rest

\* C6: the report of a usage entry lists the categories present in the order
\* Page Layouts, Validation Rules, Apex Classes, Apex Triggers, Visualforce
\* Pages, Visualforce Components, each a header line followed by one "- name"
\* line per entity in ascending order, one blank line between sections and no
\* whitespace at the end.
C6_ReportOrder ==
    (last.outcome = "string" /\ last.object = Acc /\ last.field = <<"S","t","_","_","c">>) =>
        LET entry == usage_cache[Acc][FieldKey(Acc, <<"S","t","_","_","c">>)]
        IN  /\ last.result = Sections(entry, ReportOrder)
            /\ last.result # <<>> => ~IsSpace(last.result[Len(last.result)])

\* C6 witness: Apex Classes [ClassB, ClassA] and Page Layouts [Layout1] are
\* reported as Page Layouts / Layout1, a blank line, Apex Classes / ClassA / ClassB.
C6_Witness ==
    /\ last.outcome = "string"
    /\ last.object = Acc
    /\ last.field = <<"S","t","_","_","c">>
    /\ usage_cache[Acc][FieldKey(Acc, <<"S","t","_","_","c">>)] =
           ("Apex Classes" :> <<<<"C","l","a","s","s","B">>, <<"C","l","a","s","s","A">>>> @@ "Page Layouts" :> <<<<"L","a","y","o","u","t","1">>>>)
    /\ last.result = <<"P","a","g","e"," ","L","a","y","o","u","t","s","\n","-"," ","L","a","y","o","u","t","1","\n","\n","A","p","e","x"," ","C","l","a","s","s","e","s","\n","-"," ","C","l","a","s","s","A","\n","-"," ","C","l","a","s","s","B">>

(* ---------------------------------------------------------------- C7 --- *)

\* C7: for the text "if (Account__c.Status__c == 'X')" and the object Account
\* the extractor returns exactly the set {Status__c}; for the empty text it
\* returns nothing.
C7_ExtractorSound ==
    ex.done =>
        /\ (ex.text = QualifiedFieldText /\ ex.object_name = Account) =>
               {ex.fields[i] : i \in DOMAIN ex.fields} = {<<"S","t","a","t","u","s","_","_","c">>}
        /\ ex.text = <<>> => ex.fields = <<>>

(* ---------------------------------------------------------------- C8 --- *)

\* C8: no call removes an object from usage_cache or changes the index stored
\* for an object, and a call for an object already cached leaves the whole
\* cache as it was.
C8_CacheMonotonic ==
    [][/\ \A o \in DOMAIN usage_cache :
              o \in DOMAIN usage_cache' /\ usage_cache'[o] = usage_cache[o]
       /\ ~last'.built => usage_cache' = usage_cache]_vars

\* C8 witness: with one object cached the other was built and stored, and the
\* two indexes differ.
C8_Witness ==
    /\ DOMAIN usage_cache = Objects
    /\ last.built
    /\ runs[Acc] = Collectors
    /\ runs[Job] = Collectors
    /\ usage_cache[Acc] # usage_cache[Job]
    /\ DOMAIN usage_cache[Acc] # {}
    /\ DOMAIN usage_cache[Job] # {}

(* ---------------------------------------------------------------- C9 --- *)

\* the key of the text of an entity, per direct-match collector
TextKey ==
    "apex" :> "Body" @@ "trigger" :> "Body" @@ "vf_page" :> "Markup" @@ "vf_comp" :> "Markup"

\* The build of last.object recorded every entity of the collectors in cs
\* exactly under the fields f of the catalog for which matches(c, text, f).
RecordedExactly(cs, matches(_, _, _)) ==
    LET o == last.object
    IN  \A c \in cs \ last.failed :
            LET records == Get(Response(c, o), "records", <<>>)
                catalog == FieldNames(Describe(o))
            IN  \A i \in DOMAIN records, j \in DOMAIN catalog :
                    LET text == Get(records[i], TextKey[c], <<>>)
                    IN  Get(records[i], "Name", <<>>)
                            \in Stored(usage_cache[o], FieldKey(o, catalog[j]), CategoryOf[c])
                        <=> matches(c, text, catalog[j])

\* the test the four collectors are said to apply
MatchWithObject(c, text, field_name) ==
    /\ text # <<>>
    /\ Contains(text, last.object)
    /\ Contains(text, field_name)

\* the test without the object name for the triggers
MatchTriggersByField(c, text, field_name) ==
    /\ text # <<>>
    /\ c # "trigger" => Contains(text, last.object)
    /\ Contains(text, field_name)

\* C9 as stated: each of the four direct-match collectors (classes, triggers,
\* pages, components) records an entity under a field of the object exactly
\* when the entity's text is non-empty, contains the object name and contains
\* the field name.
C9_AllMatchObject ==
    (last.built /\ last.outcome = "string") =>
        RecordedExactly(DirectCollectors, MatchWithObject)

\* C9 amended: the collectors of classes, pages and components, when their
\* query and describe() call succeed, record an entity under a field exactly
\* when its text is non-empty, contains the object name and contains the field
\* name; the trigger collector, whose query is filtered by the object, records
\* a trigger exactly when its body is non-empty and contains the field name.
C9_DirectMatch ==
    (last.built /\ last.outcome = "string") =>
        RecordedExactly(DirectCollectors, MatchTriggersByField)

\* C9 witness: a build of Acc without failure records the trigger TrgA, whose
\* body does not name Acc, and class ClsB, and does not record page PgX, whose
\* markup names the field and not the object.
C9_Witness ==
    /\ last.built
    /\ last.failed = {}
    /\ last.object = Acc
    /\ <<"T","r","g","A">> \in Stored(usage_cache[Acc], FieldKey(Acc, <<"S","t","_","_","c">>), "Apex Triggers")
    /\ <<"C","l","s","B">> \in Stored(usage_cache[Acc], FieldKey(Acc, <<"S","t","_","_","c">>), "Apex Classes")
    /\ <<"P","g","X">> \notin Stored(usage_cache[Acc], FieldKey(Acc, <<"S","t","_","_","c">>), "Visualforce Pages")

(* --------------------------------------------------------------- C10 --- *)

\* the path every query is sent to
QueryPath ==
    <<"t","o","o","l","i","n","g","/","q","u","e","r","y","/","?","q","=">>

\* Whether s is the output of URL encoding: unreserved characters, '/', and
\* percent escapes only.
IsEncoded(s) ==
    \A i \in DOMAIN s :
        IsLetter(s[i]) \/ IsDigit(s[i]) \/ s[i] \in {"_", ".", "-", "~", "/", "%"}

\* C10: every query of a cache build is sent by _tooling_query and its query
\* string is URL-encoded.
C10_QueriesEncoded ==
    \A i \in DOMAIN last.queries :
        LET q == last.queries[i]
        IN  /\ q.via = "_tooling_query"
            /\ SubSeq(q.url, 1, Len(QueryPath)) = QueryPath
            /\ IsEncoded(SubSeq(q.url, Len(QueryPath) + 1, Len(q.url)))

(* --------------------------------------------------------------- C11 --- *)

\* C11: when two callers run get_field_usage at the same time for the same
\* uncached object, under every interleaving the collectors are run for that
\* object at most once, usage_cache[object] is written exactly once, and the
\* caller that did not build reports from the index the other one built.
C11_SingleFlight ==
    (callers[1].object = callers[2].object) =>
        /\ Len(runs[callers[1].object]) <= Len(Collectors)
        /\ Cardinality({t \in Threads : callers[t].wrote}) <= 1
        /\ (\A t \in Threads : callers[t].pc = "done") =>
               /\ Cardinality({t \in Threads : callers[t].wrote}) = 1
               /\ \A t \in Threads :
                      callers[t].result =
                          Report(usage_cache, callers[t].object, callers[t].field)

====
